---- MODULE Spec2Model ----
(***************************************************************************)
(* A model of GSAPAnimationLibrary (src/gsap-animation-library.js): the    *)
(* preset dispatcher, its set of active animations, the name -> timeline   *)
(* registry and the scroll-trigger pass-through.                           *)
(*                                                                         *)
(* The animation engine (the global `gsap`) and the scroll plugin (the     *)
(* global `ScrollTrigger`) are not part of the library.  They are modelled *)
(* by what the library can observe of them:                                *)
(*   - every call the library makes on the two globals is recorded, in     *)
(*     order, in last.calls (function, target, vars);                      *)
(*   - every object the engine hands out (a tween of gsap.to, a timeline   *)
(*     of gsap.timeline) is an entry of `handles`; its index is its        *)
(*     identity, its fields are what kill/play/pause/reverse/restart and   *)
(*     the passing of time do to it;                                       *)
(*   - gsap.killTweensOf('*') takes a selector: it kills the tweens of     *)
(*     the elements the selector '*' matches, the elements in the document.*)
(*                                                                         *)
(* Numbers are fixed-point, in tenths: the JavaScript number n is the      *)
(* integer 10*n (duration 1 is 10, duration 1.5 is 15, scale 1.1 is 11,    *)
(* distance 100 is 1000).  null and undefined are the strings "null" and   *)
(* "undefined" where a value is stored; an absent key is a key not in the  *)
(* DOMAIN of the object.                                                   *)
(***************************************************************************)
EXTENDS Integers, Sequences, FiniteSets, TLC

VARIABLES
    caller,            \* the options and the property map the caller passes in this run
    gsapLoaded,        \* typeof gsap !== 'undefined'
    scrollLoaded,      \* typeof ScrollTrigger !== 'undefined'
    created,           \* per instance: the fields the constructor has assigned
    activeAnimations,  \* per instance: this.activeAnimations (a Set of handles)
    timelines,         \* per instance: this.timelines (a Map, as its entries in order)
    handles,           \* the engine's objects: tweens and timelines, by identity
    observers,         \* the ScrollTrigger instances created so far
    last               \* the last call: its arguments, what it returned, what it called

vars == <<caller, gsapLoaded, scrollLoaded, created, activeAnimations, timelines, handles,
          observers, last>>

(***************************************************************************)
(* Bounds of the model.                                                    *)
(***************************************************************************)
\* The objects the engine hands out in one run: tweens, timelines, scroll triggers.
MaxObjects == 2

(***************************************************************************)
(* JavaScript objects as functions from keys to values.                    *)
(***************************************************************************)
EmptyObj == [k \in {} |-> 0]

\* { ...a, ...b }: the keys of both, b's value where both have the key.
Spread(a, b) == [k \in (DOMAIN a) \cup (DOMAIN b) |-> IF k \in DOMAIN b THEN b[k] ELSE a[k]]

\* The keys whose values are numbers and booleans; every other key holds a string
\* (an ease, a threshold, a callback, "null", "undefined").
NumKeys == {"duration", "delay", "distance", "intensity", "repeat", "stagger",
            "opacity", "x", "y", "scale", "rotation", "rotationY"}
BoolKeys == {"markers", "once", "paused", "yoyo"}

\* JavaScript truthiness of the value v stored under key k.
Truthy(k, v) ==
    IF k \in NumKeys THEN v # 0
    ELSE IF k \in BoolKeys THEN v = TRUE
    ELSE v \notin {"null", "undefined", ""}

\* o.k as a condition: an absent key reads undefined, which is falsy.
Has(o, k) == k \in DOMAIN o /\ Truthy(k, o[k])

\* A default that replaces an absent key only (o.k ?? dflt).
OrElseAbsent(o, k, dflt) == IF k \in DOMAIN o THEN o[k] ELSE dflt

\* o.k || dflt
OrElse(o, k, dflt) == IF Has(o, k) THEN o[k] ELSE dflt

(***************************************************************************)
(* The host: instances, targets, names.                                    *)
(***************************************************************************)
Disp == {"A", "B"}
Fields == {"activeAnimations", "timelines"}

\* Single targets: "el" is an element of the document; "loose" is a target the
\* selector '*' does not match (an element not attached to the document).
Elements == {"el", "loose"}
\* Collections of elements (the stagger presets' targets), all in the document.
Collections == {"cards"}
InDocument(t) == t \in {"el", "cards"}

\* What a call returns: a handle, an observer, null or undefined.
RetHandle(id) == [kind |-> "handle", id |-> id]
RetObserver(id) == [kind |-> "observer", id |-> id]
RetNull == [kind |-> "null", id |-> 0]
RetUndefined == [kind |-> "undefined", id |-> 0]

\* One call on the globals gsap / ScrollTrigger.
Call(fn, target, v) == [fn |-> fn, target |-> target, vars |-> v]

\* The record of a call of the library: its arguments (arg: the handle given to
\* killAnimation, the callback given to scrollTrigger), what it returned, whether it
\* raised or warned, the caller's callback it ran, the calls it made on the globals,
\* and (dropped) the handles it took out of this.activeAnimations.
Rec(op, d, target, name, properties, options, arg, ret, raised, warned, invoked, calls) ==
    [op |-> op, d |-> d, target |-> target, name |-> name, properties |-> properties,
     options |-> options, arg |-> arg, ret |-> ret, raised |-> raised, warned |-> warned,
     invoked |-> invoked, calls |-> calls, dropped |-> {}]

\* A tween returned by gsap.to(target, v), or a timeline returned by
\* gsap.timeline(v): what it animates ("none": a timeline created empty), the
\* instance that asked for it, the function its vars carry under onComplete
\* ("none" when they carry none: absent, null, not a function), how many times the
\* engine has called it, and what has happened to the handle since.
NewHandle(target, d, v) ==
    [target |-> target, by |-> d,
     onComplete |-> IF Has(v, "onComplete") THEN v["onComplete"] ELSE "none",
     fired |-> 0,
     killed |-> FALSE, done |-> FALSE, paused |-> Has(v, "paused"), reversed |-> FALSE]

Ready(d) == created[d] = Fields
Room == Len(handles) + Len(observers) < MaxObjects

(***************************************************************************)
(* constructor                                                             *)
(***************************************************************************)
\* A constructor that assigns its fields before it looks for gsap.
FieldsAssignedFirst == {"activeAnimations", "timelines"}

\* The fields the constructor has assigned when it throws for want of gsap.
FieldsBeforeCheck == {}

\* The calls the constructor makes on the engine once gsap is known to be there.
RegisterCalls == IF scrollLoaded THEN <<Call("registerPlugin", "none", EmptyObj)>> ELSE <<>>

constructor(d) ==
    /\ created[d] = {}
    /\ IF ~gsapLoaded
       THEN /\ created' = [created EXCEPT ![d] = FieldsBeforeCheck]
            /\ last' = Rec("constructor", d, "none", "none", EmptyObj, EmptyObj, 0,
                           RetUndefined, TRUE, FALSE, "none", <<>>)
            /\ UNCHANGED <<activeAnimations, timelines>>
       ELSE /\ created' = [created EXCEPT ![d] = Fields]
            /\ activeAnimations' = [activeAnimations EXCEPT ![d] = {}]
            /\ timelines' = [timelines EXCEPT ![d] = <<>>]
            /\ last' = Rec("constructor", d, "none", "none", EmptyObj, EmptyObj, 0,
                           RetUndefined, FALSE, FALSE, "none", RegisterCalls)
    /\ UNCHANGED <<caller, gsapLoaded, scrollLoaded, handles, observers>>

(***************************************************************************)
(* animate and the presets routed through it                               *)
(***************************************************************************)
\* const defaults = { duration: 1, ease: 'power2.out', delay: 0, onComplete: null, onStart: null }
defaults ==
    [k \in {"duration", "ease", "delay", "onComplete", "onStart"} |->
        CASE k = "duration" -> 10
          [] k = "ease" -> "power2.out"
          [] k = "delay" -> 0
          [] k = "onComplete" -> "null"
          [] k = "onStart" -> "null"]

\* if (options.k) config.k = options.k
Reassign(config, options, k) ==
    IF Has(options, k)
    THEN [j \in (DOMAIN config) \cup {k} |-> IF j = k THEN options[k] ELSE config[j]]
    ELSE config

\* animate with the options spread after the properties.
AnimateConfigOptionsLast(properties, options) ==
    Reassign(Reassign(Spread(Spread(defaults, properties), options), options, "onStart"),
             options, "onComplete")

\* The config animate hands to gsap.to.
AnimateConfig(properties, options) ==
    Reassign(Reassign(Spread(Spread(defaults, options), properties), options, "onStart"),
             options, "onComplete")

\* A set that keeps the latest handle only.
TrackLatestOnly(set, id) == {id}

\* this.activeAnimations.add(animation)
Track(set, id) == set \cup {id}

\* animate submitting its gsap.to before the preset's gsap.set has run.
AnimateAsSetLast(op, d, element, properties, options, given, pre) ==
    LET id == Len(handles) + 1 IN
    /\ handles' = Append(handles, NewHandle(element, d, AnimateConfig(properties, options)))
    /\ activeAnimations' = [activeAnimations EXCEPT ![d] = @ \cup {id}]
    /\ last' = Rec(op, d, element, "none", IF op = "animate" THEN properties ELSE EmptyObj,
                   given, 0, RetHandle(id), FALSE, FALSE, "none",
                   <<Call("to", element, Spread(Spread(defaults, options), properties))>> \o pre)
    /\ UNCHANGED <<caller, gsapLoaded, scrollLoaded, created, timelines, observers>>

\* The body of animate, entered from `op` (animate itself or a preset) after the
\* engine calls `pre` (the preset's gsap.set, if it has one): one gsap.to, whose
\* tween is added to the set and returned.  `given` is the caller's options.
AnimateAs(op, d, element, properties, options, given, pre) ==
    LET id == Len(handles) + 1 IN
    /\ handles' = Append(handles, NewHandle(element, d, AnimateConfig(properties, options)))
    /\ activeAnimations' = [activeAnimations EXCEPT ![d] = Track(@, id)]
    /\ last' = Rec(op, d, element, "none", IF op = "animate" THEN properties ELSE EmptyObj,
                   given, 0, RetHandle(id), FALSE, FALSE, "none",
                   pre \o <<Call("to", element, AnimateConfig(properties, options))>>)
    /\ UNCHANGED <<caller, gsapLoaded, scrollLoaded, created, timelines, observers>>

animate(d, element, properties, options) ==
    /\ Ready(d) /\ Room
    /\ AnimateAs("animate", d, element, properties, options, options, <<>>)

\* A fadeIn that animates without hiding its target first.
fadeInWithoutSet(d, element, options) ==
    /\ Ready(d) /\ Room
    /\ AnimateAs("fadeIn", d, element, ("opacity" :> 10), options, options, <<>>)

fadeIn(d, element, options) ==
    /\ Ready(d) /\ Room
    /\ AnimateAs("fadeIn", d, element, ("opacity" :> 10), options, options,
                 <<Call("set", element, ("opacity" :> 0))>>)

fadeOut(d, element, options) ==
    /\ Ready(d) /\ Room
    /\ AnimateAs("fadeOut", d, element, ("opacity" :> 0), options, options, <<>>)

\* The slides with the stagger variant's default distance.
SlideDistanceFifty(options) == OrElse(options, "distance", 500)

\* const distance = options.distance || 100
SlideDistance(options) == OrElse(options, "distance", 1000)

slideUp(d, element, options) ==
    /\ Ready(d) /\ Room
    /\ AnimateAs("slideUp", d, element, ("y" :> 0 @@ "opacity" :> 10), options, options,
                 <<Call("set", element, ("y" :> SlideDistance(options) @@ "opacity" :> 0))>>)

slideDown(d, element, options) ==
    /\ Ready(d) /\ Room
    /\ AnimateAs("slideDown", d, element, ("y" :> 0 @@ "opacity" :> 10), options, options,
                 <<Call("set", element, ("y" :> -SlideDistance(options) @@ "opacity" :> 0))>>)

slideLeft(d, element, options) ==
    /\ Ready(d) /\ Room
    /\ AnimateAs("slideLeft", d, element, ("x" :> 0 @@ "opacity" :> 10), options, options,
                 <<Call("set", element, ("x" :> SlideDistance(options) @@ "opacity" :> 0))>>)

slideRight(d, element, options) ==
    /\ Ready(d) /\ Room
    /\ AnimateAs("slideRight", d, element, ("x" :> 0 @@ "opacity" :> 10), options, options,
                 <<Call("set", element, ("x" :> -SlideDistance(options) @@ "opacity" :> 0))>>)

scaleUp(d, element, options) ==
    /\ Ready(d) /\ Room
    /\ AnimateAs("scaleUp", d, element, ("scale" :> 10 @@ "opacity" :> 10),
                 Spread(("ease" :> "back.out(1.7)"), options), options,
                 <<Call("set", element, ("scale" :> 0 @@ "opacity" :> 0))>>)

scaleDown(d, element, options) ==
    /\ Ready(d) /\ Room
    /\ AnimateAs("scaleDown", d, element, ("scale" :> 0 @@ "opacity" :> 0),
                 Spread(("ease" :> "back.in(1.7)"), options), options, <<>>)

rotateIn(d, element, options) ==
    /\ Ready(d) /\ Room
    /\ AnimateAs("rotateIn", d, element, ("rotation" :> 0 @@ "scale" :> 10 @@ "opacity" :> 10),
                 Spread(("ease" :> "back.out(1.7)"), options), options,
                 <<Call("set", element, ("rotation" :> -1800 @@ "scale" :> 0 @@ "opacity" :> 0))>>)

rotateOut(d, element, options) ==
    /\ Ready(d) /\ Room
    /\ AnimateAs("rotateOut", d, element, ("rotation" :> 1800 @@ "scale" :> 0 @@ "opacity" :> 0),
                 Spread(("ease" :> "back.in(1.7)"), options), options, <<>>)

bounceIn(d, element, options) ==
    /\ Ready(d) /\ Room
    /\ AnimateAs("bounceIn", d, element, ("y" :> 0 @@ "opacity" :> 10),
                 Spread(("ease" :> "bounce.out" @@ "duration" :> 15), options), options,
                 <<Call("set", element, ("y" :> -1000 @@ "opacity" :> 0))>>)

elastic(d, element, options) ==
    /\ Ready(d) /\ Room
    /\ AnimateAs("elastic", d, element, ("scale" :> 10 @@ "opacity" :> 10),
                 Spread(("ease" :> "elastic.out(1, 0.5)" @@ "duration" :> 15), options), options,
                 <<Call("set", element, ("scale" :> 0 @@ "opacity" :> 0))>>)

flip(d, element, options) ==
    /\ Ready(d) /\ Room
    /\ AnimateAs("flip", d, element, ("rotationY" :> 3600),
                 Spread(("duration" :> 10), options), options, <<>>)

(***************************************************************************)
(* shake, pulse and the stagger presets: built on the engine directly      *)
(***************************************************************************)
\* The set of tracked handles after a preset that does not go through animate has
\* created handle `id`: the code adds nothing.
TrackDirect(set, id) == set

\* The vars of the call, among `calls`, that makes the handle a preset returns: its
\* gsap.timeline or its gsap.to.
Made(calls) ==
    calls[CHOOSE i \in DOMAIN calls : /\ calls[i].fn \in {"timeline", "to"}
                                      /\ \A j \in 1..(i - 1) : calls[j].fn = "set"].vars

\* The effect of a preset that calls the engine itself: the calls it makes, the
\* handle (a timeline for shake and pulse, a tween for the stagger presets) it returns.
DirectAs(op, d, target, options, calls) ==
    LET id == Len(handles) + 1 IN
    /\ handles' = Append(handles, NewHandle(target, d, Made(calls)))
    /\ activeAnimations' = [activeAnimations EXCEPT ![d] = TrackDirect(@, id)]
    /\ last' = Rec(op, d, target, "none", EmptyObj, options, 0, RetHandle(id),
                   FALSE, FALSE, "none", calls)
    /\ UNCHANGED <<caller, gsapLoaded, scrollLoaded, created, timelines, observers>>

\* A shake whose steps take the caller's duration.
ShakeStepTimed(element, v) ==
    Call("tl.to", element, ("x" :> v @@ "duration" :> OrElse(caller.options, "duration", 1)))

\* tl.to(element, { x: v, duration: 0.1 })
ShakeStep(element, v) == Call("tl.to", element, ("x" :> v @@ "duration" :> 1))

\* const intensity = options.intensity || 10
ShakeIntensity(options) == OrElse(options, "intensity", 100)

shake(d, element, options) ==
    /\ Ready(d) /\ Room
    /\ LET intensity == ShakeIntensity(options) IN
       DirectAs("shake", d, element, options,
                <<Call("timeline", "none", EmptyObj),
                  ShakeStep(element, -intensity), ShakeStep(element, intensity),
                  ShakeStep(element, -intensity), ShakeStep(element, intensity),
                  ShakeStep(element, 0)>>)

\* { repeat: options.repeat || 2 }
PulseRepeat(options) == OrElse(options, "repeat", 20)

pulse(d, element, options) ==
    /\ Ready(d) /\ Room
    /\ DirectAs("pulse", d, element, options,
                <<Call("timeline", "none", ("repeat" :> PulseRepeat(options))),
                  Call("tl.to", element, ("scale" :> 11 @@ "duration" :> 3)),
                  Call("tl.to", element, ("scale" :> 10 @@ "duration" :> 3))>>)

\* duration, stagger, ease and delay as the stagger presets read them
StaggerTiming(options, ease) ==
    ("duration" :> OrElse(options, "duration", 10)) @@
    ("stagger" :> OrElse(options, "stagger", 2)) @@
    ("ease" :> OrElse(options, "ease", ease)) @@
    ("delay" :> OrElse(options, "delay", 0))

staggerFadeIn(d, elements, options) ==
    /\ Ready(d) /\ Room
    /\ DirectAs("staggerFadeIn", d, elements, options,
                <<Call("set", elements, ("opacity" :> 0)),
                  Call("to", elements, ("opacity" :> 10) @@ StaggerTiming(options, "power2.out"))>>)

\* const distance = options.distance || 50
StaggerDistance(options) == OrElse(options, "distance", 500)

staggerSlideUp(d, elements, options) ==
    /\ Ready(d) /\ Room
    /\ DirectAs("staggerSlideUp", d, elements, options,
                <<Call("set", elements, ("y" :> StaggerDistance(options) @@ "opacity" :> 0)),
                  Call("to", elements, ("y" :> 0 @@ "opacity" :> 10)
                                       @@ StaggerTiming(options, "power2.out"))>>)

staggerScale(d, elements, options) ==
    /\ Ready(d) /\ Room
    /\ DirectAs("staggerScale", d, elements, options,
                <<Call("set", elements, ("scale" :> 0 @@ "opacity" :> 0)),
                  Call("to", elements, ("scale" :> 10 @@ "opacity" :> 10)
                                       @@ StaggerTiming(options, "back.out(1.7)"))>>)

(***************************************************************************)
(* The registry of named timelines: this.timelines, a Map                  *)
(***************************************************************************)
\* map.get(key): the value of the entry with that key; 0 stands for undefined.
MapGet(m, key) ==
    IF \E i \in DOMAIN m : m[i][1] = key
    THEN m[CHOOSE i \in DOMAIN m : m[i][1] = key][2]
    ELSE 0

\* A map that adds an entry on every set.
MapSetAppends(m, key, value) == Append(m, <<key, value>>)

\* map.set(key, value): the entry with that key gets the value, in place; a new
\* key is a new entry at the end.
MapSet(m, key, value) ==
    IF \E i \in DOMAIN m : m[i][1] = key
    THEN [i \in DOMAIN m |-> IF m[i][1] = key THEN <<key, value>> ELSE m[i]]
    ELSE Append(m, <<key, value>>)

\* A createTimeline that kills the timeline it displaces.
createTimelineDraining(d, name, options) ==
    /\ Ready(d) /\ Room
    /\ LET id == Len(handles) + 1
           old == MapGet(timelines[d], name) IN
        /\ handles' = Append([i \in DOMAIN handles |->
                                 IF i = old THEN [handles[i] EXCEPT !.killed = TRUE]
                                 ELSE handles[i]],
                             NewHandle("none", d, options))
        /\ timelines' = [timelines EXCEPT ![d] = MapSet(@, name, id)]
        /\ last' = Rec("createTimeline", d, "none", name, EmptyObj, options, 0, RetHandle(id),
                       FALSE, FALSE, "none", <<Call("timeline", "none", options)>>)
    /\ UNCHANGED <<caller, gsapLoaded, scrollLoaded, created, activeAnimations, observers>>

createTimeline(d, name, options) ==
    /\ Ready(d) /\ Room
    /\ LET id == Len(handles) + 1 IN
        /\ handles' = Append(handles, NewHandle("none", d, options))
        /\ timelines' = [timelines EXCEPT ![d] = MapSet(@, name, id)]
        /\ last' = Rec("createTimeline", d, "none", name, EmptyObj, options, 0, RetHandle(id),
                       FALSE, FALSE, "none", <<Call("timeline", "none", options)>>)
    /\ UNCHANGED <<caller, gsapLoaded, scrollLoaded, created, activeAnimations, observers>>

getTimeline(d, name) ==
    /\ Ready(d)
    /\ LET timeline == MapGet(timelines[d], name) IN
       last' = Rec("getTimeline", d, "none", name, EmptyObj, EmptyObj, 0,
                   IF timeline = 0 THEN RetUndefined ELSE RetHandle(timeline),
                   FALSE, FALSE, "none", <<>>)
    /\ UNCHANGED <<caller, gsapLoaded, scrollLoaded, created, activeAnimations, timelines, handles,
                   observers>>

\* What play, pause, reverse and restart do to a timeline.
Controlled(h, method) ==
    CASE method = "play" -> [h EXCEPT !.paused = FALSE, !.reversed = FALSE]
      [] method = "pause" -> [h EXCEPT !.paused = TRUE]
      [] method = "reverse" -> [h EXCEPT !.paused = FALSE, !.reversed = TRUE]
      [] method = "restart" -> [h EXCEPT !.paused = FALSE, !.reversed = FALSE, !.done = FALSE]

\* The control operations without their test.
IfTimelineUnchecked(timeline) == TRUE

\* if (timeline)
IfTimeline(timeline) == timeline # 0

\* const timeline = this.timelines.get(name); if (timeline) timeline.<method>()
\* A method called on undefined raises a TypeError.
Control(op, method, d, name) ==
    LET timeline == MapGet(timelines[d], name) IN
    /\ IF IfTimeline(timeline)
       THEN IF timeline = 0
            THEN /\ last' = Rec(op, d, "none", name, EmptyObj, EmptyObj, 0, RetUndefined,
                                TRUE, FALSE, "none", <<>>)
                 /\ UNCHANGED handles
            ELSE /\ handles' = [handles EXCEPT ![timeline] = Controlled(@, method)]
                 /\ last' = Rec(op, d, "none", name, EmptyObj, EmptyObj, 0, RetUndefined,
                                FALSE, FALSE, "none", <<>>)
       ELSE /\ last' = Rec(op, d, "none", name, EmptyObj, EmptyObj, 0, RetUndefined,
                           FALSE, FALSE, "none", <<>>)
            /\ UNCHANGED handles
    /\ UNCHANGED <<caller, gsapLoaded, scrollLoaded, created, activeAnimations, timelines,
                   observers>>

playTimeline(d, name) ==
    /\ Ready(d)
    /\ Control("playTimeline", "play", d, name)

pauseTimeline(d, name) ==
    /\ Ready(d)
    /\ Control("pauseTimeline", "pause", d, name)

reverseTimeline(d, name) ==
    /\ Ready(d)
    /\ Control("reverseTimeline", "reverse", d, name)

restartTimeline(d, name) ==
    /\ Ready(d)
    /\ Control("restartTimeline", "restart", d, name)

(***************************************************************************)
(* scrollTrigger                                                           *)
(***************************************************************************)
\* () => animation(): the function that calls the caller's callback
Wrapper(animation) == CASE animation = "cbA" -> "() => cbA()"
                         [] animation = "cbB" -> "() => cbB()"

\* The callback a function stored under onEnter runs when it is called.
Runs(fn) == CASE fn = "() => cbA()" -> "cbA"
              [] fn = "() => cbB()" -> "cbB"
              [] OTHER -> fn

\* The object handed to ScrollTrigger.create
TriggerConfig(element, animation, options) ==
    Spread(("trigger" :> element) @@
           ("start" :> OrElse(options, "start", "top 80%")) @@
           ("end" :> OrElse(options, "end", "bottom 20%")) @@
           ("onEnter" :> Wrapper(animation)) @@
           ("markers" :> OrElse(options, "markers", FALSE)),
           options)

\* scrollTrigger without its test for the plugin.
NoScrollUnchecked == FALSE

\* typeof ScrollTrigger === 'undefined'
NoScroll == ~scrollLoaded

scrollTrigger(d, element, animation, options) ==
    /\ Ready(d)
    /\ NoScroll \/ Room
    /\ IF NoScroll
       THEN /\ last' = Rec("scrollTrigger", d, element, "none", EmptyObj, options, animation, RetNull,
                           FALSE, TRUE, "none", <<>>)
            /\ UNCHANGED observers
       ELSE /\ observers' = Append(observers, TriggerConfig(element, animation, options))
            /\ last' = Rec("scrollTrigger", d, element, "none", EmptyObj, options, animation,
                           RetObserver(Len(observers) + 1), FALSE, FALSE, "none",
                           <<Call("create", element, TriggerConfig(element, animation, options))>>)
    /\ UNCHANGED <<caller, gsapLoaded, scrollLoaded, created, activeAnimations, timelines, handles>>

(***************************************************************************)
(* killAll, killAnimation, resetElement                                    *)
(***************************************************************************)
\* animation.kill()
Kill(hs, ids) == [i \in DOMAIN hs |-> IF i \in ids THEN [hs[i] EXCEPT !.killed = TRUE] ELSE hs[i]]

\* The handles gsap.killTweensOf('*') reaches: the tweens of the elements the
\* selector matches, those inside a timeline included.
Matched(hs) == {i \in DOMAIN hs : InDocument(hs[i].target)}

\* A killAll that empties the registry too.
killAllClearing(d) ==
    /\ Ready(d)
    /\ handles' = Kill(Kill(handles, activeAnimations[d]), Matched(handles))
    /\ activeAnimations' = [activeAnimations EXCEPT ![d] = {}]
    /\ timelines' = [timelines EXCEPT ![d] = <<>>]
    /\ last' = [Rec("killAll", d, "none", "none", EmptyObj, EmptyObj, 0, RetUndefined,
                    FALSE, FALSE, "none", <<Call("killTweensOf", "*", EmptyObj)>>)
                EXCEPT !.dropped = activeAnimations[d]]
    /\ UNCHANGED <<caller, gsapLoaded, scrollLoaded, created, observers>>

killAll(d) ==
    /\ Ready(d)
    /\ handles' = Kill(Kill(handles, activeAnimations[d]), Matched(handles))
    /\ activeAnimations' = [activeAnimations EXCEPT ![d] = {}]
    /\ last' = [Rec("killAll", d, "none", "none", EmptyObj, EmptyObj, 0, RetUndefined,
                    FALSE, FALSE, "none", <<Call("killTweensOf", "*", EmptyObj)>>)
                EXCEPT !.dropped = activeAnimations[d]]
    /\ UNCHANGED <<caller, gsapLoaded, scrollLoaded, created, timelines, observers>>

\* killAnimation clearing the set instead of deleting one handle.
UntrackAll(set, id) == {}

\* this.activeAnimations.delete(animation)
Untrack(set, id) == set \ {id}

\* A killAnimation that acts on the handles of its own set only.
killAnimationTrackedOnly(d, animation) ==
    /\ Ready(d)
    /\ IF animation \in activeAnimations[d]
       THEN /\ handles' = Kill(handles, {animation})
            /\ activeAnimations' = [activeAnimations EXCEPT ![d] = Untrack(@, animation)]
       ELSE UNCHANGED <<handles, activeAnimations>>
    /\ last' = [Rec("killAnimation", d, "none", "none", EmptyObj, EmptyObj, animation,
                    RetUndefined, FALSE, FALSE, "none", <<>>)
                EXCEPT !.dropped = activeAnimations[d] \ activeAnimations'[d]]
    /\ UNCHANGED <<caller, gsapLoaded, scrollLoaded, created, timelines, observers>>

\* `animation` is a handle, or 0 for null / undefined.
killAnimation(d, animation) ==
    /\ Ready(d)
    /\ IF animation # 0
       THEN /\ handles' = Kill(handles, {animation})
            /\ activeAnimations' = [activeAnimations EXCEPT ![d] = Untrack(@, animation)]
       ELSE UNCHANGED <<handles, activeAnimations>>
    /\ last' = [Rec("killAnimation", d, "none", "none", EmptyObj, EmptyObj, animation,
                    RetUndefined, FALSE, FALSE, "none", <<>>)
                EXCEPT !.dropped = activeAnimations[d] \ activeAnimations'[d]]
    /\ UNCHANGED <<caller, gsapLoaded, scrollLoaded, created, timelines, observers>>

resetElement(d, element) ==
    /\ Ready(d)
    /\ last' = Rec("resetElement", d, element, "none", EmptyObj, EmptyObj, 0, RetUndefined,
                   FALSE, FALSE, "none",
                   <<Call("set", element,
                          ("clearProps" :> "x,y,scale,rotation,opacity,transform"))>>)
    /\ UNCHANGED <<caller, gsapLoaded, scrollLoaded, created, activeAnimations, timelines, handles,
                   observers>>

(***************************************************************************)
(* The engine and the page, between the calls                              *)
(***************************************************************************)
\* An animation on a target runs to its end: the engine calls the function its
\* vars carry under onComplete, if they carry one.
Complete(id) ==
    /\ id \in DOMAIN handles
    /\ handles[id].target # "none"
    /\ ~handles[id].killed /\ ~handles[id].done /\ ~handles[id].paused
    /\ LET fires == handles[id].onComplete # "none" IN
        /\ handles' = [handles EXCEPT ![id].done = TRUE,
                                      ![id].fired = IF fires THEN @ + 1 ELSE @]
        /\ last' = Rec("complete", handles[id].by, handles[id].target, "none", EmptyObj,
                       EmptyObj, id, RetUndefined, FALSE, FALSE,
                       IF fires THEN handles[id].onComplete ELSE "none", <<>>)
    /\ UNCHANGED <<caller, gsapLoaded, scrollLoaded, created, activeAnimations, timelines,
                   observers>>

\* The page scrolls an observer's trigger past its entry threshold.
ScrollEnter(i) ==
    /\ i \in DOMAIN observers
    /\ last' = Rec("onEnter", "A", observers[i].trigger, "none", EmptyObj, EmptyObj, i,
                   RetUndefined, FALSE, FALSE, Runs(observers[i].onEnter), <<>>)
    /\ UNCHANGED <<caller, gsapLoaded, scrollLoaded, created, activeAnimations, timelines, handles,
                   observers>>

(***************************************************************************)
(* Specification: one instance, every operation, the options left empty    *)
(***************************************************************************)
Instances == {"A"}
Names == {"x", "y"}
Callbacks == {"cbA"}
TimelineOpts == {EmptyObj, ("paused" :> TRUE)}
TriggerOpts == {EmptyObj}

\* What killAnimation is given: null (0), or a handle a preset or animate returned.
Killable == {0} \cup {i \in DOMAIN handles : handles[i].target # "none"}

\* The host before any instance is constructed.
Fresh ==
    /\ created = [d \in Disp |-> {}]
    /\ activeAnimations = [d \in Disp |-> {}]
    /\ timelines = [d \in Disp |-> <<>>]
    /\ handles = <<>>
    /\ observers = <<>>
    /\ last = Rec("none", "A", "none", "none", EmptyObj, EmptyObj, 0, RetUndefined,
                  FALSE, FALSE, "none", <<>>)

Init ==
    /\ caller = [options |-> EmptyObj, properties |-> ("opacity" :> 5)]
    /\ gsapLoaded \in BOOLEAN
    /\ scrollLoaded \in BOOLEAN
    /\ Fresh

\* The presets and animate, called with the caller's options on element e or on
\* the collection c.
Presets(d, e, c) ==
    \/ animate(d, e, caller.properties, caller.options)
    \/ fadeIn(d, e, caller.options) \/ fadeOut(d, e, caller.options)
    \/ slideUp(d, e, caller.options) \/ slideDown(d, e, caller.options)
    \/ slideLeft(d, e, caller.options) \/ slideRight(d, e, caller.options)
    \/ scaleUp(d, e, caller.options) \/ scaleDown(d, e, caller.options)
    \/ rotateIn(d, e, caller.options) \/ rotateOut(d, e, caller.options)
    \/ bounceIn(d, e, caller.options) \/ elastic(d, e, caller.options)
    \/ flip(d, e, caller.options)
    \/ shake(d, e, caller.options) \/ pulse(d, e, caller.options)
    \/ staggerFadeIn(d, c, caller.options) \/ staggerSlideUp(d, c, caller.options)
    \/ staggerScale(d, c, caller.options)

Next ==
    \/ \E d \in Instances : constructor(d)
    \/ \E d \in Instances, e \in Elements, c \in Collections : Presets(d, e, c)
    \/ \E d \in Instances, n \in Names, o \in TimelineOpts : createTimeline(d, n, o)
    \/ \E d \in Instances, n \in Names :
        \/ getTimeline(d, n)
        \/ playTimeline(d, n) \/ pauseTimeline(d, n)
        \/ reverseTimeline(d, n) \/ restartTimeline(d, n)
    \/ \E d \in Instances, e \in Elements, cb \in Callbacks, o \in TriggerOpts :
        scrollTrigger(d, e, cb, o)
    \/ \E d \in Instances : killAll(d)
    \/ \E d \in Instances, a \in Killable : killAnimation(d, a)
    \/ \E d \in Instances, e \in Elements : resetElement(d, e)
    \/ \E id \in DOMAIN handles : Complete(id)
    \/ \E i \in DOMAIN observers : ScrollEnter(i)

Spec == Init /\ [][Next]_vars

(***************************************************************************)
(* Specification: the presets and animate over a space of options.  The    *)
(* caller's options and property map are drawn at the start; the instance  *)
(* is constructed; the presets are then called with them.                  *)
(***************************************************************************)
\* The values tried under each option key (0: an option given as zero).
KeyValues ==
    {<<"duration", 0>>, <<"duration", 20>>, <<"delay", 0>>, <<"delay", 5>>, <<"ease", "none">>,
     <<"distance", 0>>, <<"distance", 500>>, <<"intensity", 0>>, <<"intensity", 50>>,
     <<"repeat", 0>>, <<"repeat", 30>>, <<"stagger", 0>>, <<"stagger", 1>>,
     <<"onStart", "cbA">>, <<"onComplete", "cbA">>, <<"onComplete", "null">>,
     <<"yoyo", TRUE>>}

\* The objects with one key, and those with two different keys.
OneKey == {kv[1] :> kv[2] : kv \in KeyValues}
TwoKeys == {p[1] @@ p[2] : p \in {q \in OneKey \X OneKey : DOMAIN q[1] # DOMAIN q[2]}}

OptionSpace == {EmptyObj} \cup OneKey \cup TwoKeys

\* The property maps tried with animate: plain end values, and maps that carry
\* keys the options and the defaults carry too.
PropSpace ==
    {EmptyObj, ("opacity" :> 5), ("x" :> 1000 @@ "duration" :> 30),
     ("onStart" :> "cbB"), ("onComplete" :> "cbB" @@ "ease" :> "linear"),
     ("y" :> 0 @@ "delay" :> 0 @@ "onStart" :> "null")}

\* Every option object with one property map, and every property map with the
\* option objects of at most one key.
Inputs ==
    {[options |-> o, properties |-> ("opacity" :> 5)] : o \in OptionSpace}
    \cup {[options |-> o, properties |-> p] : o \in {EmptyObj} \cup OneKey, p \in PropSpace}

InitOptions ==
    /\ caller \in Inputs
    /\ gsapLoaded = TRUE
    /\ scrollLoaded = TRUE
    /\ Fresh

NextOptions ==
    \/ constructor("A")
    \/ \E e \in Elements, c \in Collections : Presets("A", e, c)

SpecOptions == InitOptions /\ [][NextOptions]_vars

(***************************************************************************)
(* Specification: two instances on one page, sharing the engine.  Both     *)
(* animate the same targets, kill handles (their own and each other's),    *)
(* and the engine runs the animations to their end.  fadeIn stands for the *)
(* presets that track their handle; shake, on the target outside the       *)
(* document, for those that do not.                                        *)
(***************************************************************************)
\* The options tried: none, and an onComplete callback together with an opacity
\* of 0.5.
HostInputs ==
    {[options |-> o, properties |-> ("opacity" :> 5)] :
        o \in {EmptyObj, ("onComplete" :> "cbA" @@ "opacity" :> 5)}}

InitHost ==
    /\ caller \in HostInputs
    /\ gsapLoaded = TRUE
    /\ scrollLoaded = TRUE
    /\ Fresh

NextHost ==
    \/ \E d \in Disp : constructor(d)
    \/ \E d \in Disp, e \in Elements : fadeIn(d, e, caller.options)
    \/ \E d \in Disp : shake(d, "loose", caller.options)
    \/ \E d \in Disp : killAll(d)
    \/ \E d \in Disp, a \in {0} \cup DOMAIN handles : killAnimation(d, a)
    \/ \E id \in DOMAIN handles : Complete(id)

SpecHost == InitHost /\ [][NextHost]_vars

(***************************************************************************)
(* Specification: scrollTrigger over a space of options, with the plugin   *)
(* loaded, and the page scrolling the observers' triggers into view.       *)
(***************************************************************************)
ScrollCallbacks == {"cbA", "cbB"}

\* The option records tried: the documented keys, an explicit undefined, and
\* records that carry the keys scrollTrigger fills in itself.
ScrollOptions ==
    {EmptyObj, ("start" :> "top center"), ("markers" :> TRUE), ("once" :> TRUE),
     ("start" :> "undefined"), ("end" :> "undefined" @@ "once" :> TRUE),
     ("onEnter" :> "cbB"), ("trigger" :> "loose")}

InitScroll ==
    /\ caller = [options |-> EmptyObj, properties |-> EmptyObj]
    /\ gsapLoaded = TRUE
    /\ scrollLoaded = TRUE
    /\ Fresh

NextScroll ==
    \/ constructor("A")
    \/ \E e \in Elements, cb \in ScrollCallbacks, o \in ScrollOptions :
          scrollTrigger("A", e, cb, o)
    \/ \E i \in DOMAIN observers : ScrollEnter(i)

SpecScroll == InitScroll /\ [][NextScroll]_vars
(***************************************************************************)
(* Properties                                                              *)
(***************************************************************************)
\* The operations that hand the caller an animation handle.
ViaAnimate == {"animate", "fadeIn", "fadeOut", "slideUp", "slideDown", "slideLeft",
               "slideRight", "scaleUp", "scaleDown", "rotateIn", "rotateOut", "bounceIn",
               "elastic", "flip"}
Direct == {"shake", "pulse", "staggerFadeIn", "staggerSlideUp", "staggerScale"}
HandleOps == ViaAnimate \cup Direct
ControlOps == {"playTimeline", "pauseTimeline", "reverseTimeline", "restartTimeline"}

\* The handles a preset or animate returned (a timeline of createTimeline has no target).
Produced(d) == {i \in DOMAIN handles : handles[i].by = d /\ handles[i].target # "none"}

\* The handles the registry of d holds under the name n, read off the entries.
Under(reg, n) == {reg[i][2] : i \in {j \in DOMAIN reg : reg[j][1] = n}}

\* C1: when a method that returns an animation handle (animate, a preset, shake,
\* pulse, a stagger preset) returns, the handle is in the instance's active set.
C1_ReturnedHandleTracked ==
    last.op \in HandleOps => last.ret.id \in activeAnimations[last.d]

\* C2: after killAll the active set is empty and every handle the presets and
\* animate returned is stopped, whether or not its animation had completed.
C2_KillAllStopsProduced ==
    last.op = "killAll" =>
        /\ activeAnimations[last.d] = {}
        /\ \A i \in Produced(last.d) : handles[i].killed

\* C3: killAnimation(h) of a tracked handle h stops h, removes h and nothing else
\* from the active set, and stops no other handle.
C3_KillAnimationExact ==
    [][(last'.op = "killAnimation" /\ last'.arg \in activeAnimations[last'.d]) =>
          /\ handles'[last'.arg].killed
          /\ activeAnimations'[last'.d] = activeAnimations[last'.d] \ {last'.arg}
          /\ \A i \in activeAnimations[last'.d] \ {last'.arg} :
                i \in activeAnimations'[last'.d] /\ handles'[i] = handles[i]
          /\ \A i \in DOMAIN handles \ {last'.arg} : handles'[i] = handles[i]]_vars

C3_Witness ==
    /\ last.op = "killAnimation"
    /\ last.dropped = {last.arg}
    /\ handles[last.arg].killed
    /\ \E i \in activeAnimations[last.d] : ~handles[i].killed

\* C4: the registry holds at most one entry per name; createTimeline(x) leaves
\* exactly the handle it returns under x and the other names as they were; no
\* other operation changes what a name holds; getTimeline(x) returns the handle
\* held under x, the one the most recent createTimeline(x) returned.
C4_LastWriteWins ==
    /\ [](\A d \in Disp, n \in Names :
             Cardinality({i \in DOMAIN timelines[d] : timelines[d][i][1] = n}) <= 1)
    /\ [](last.op = "getTimeline" =>
            \/ last.ret.kind = "handle" /\ Under(timelines[last.d], last.name) = {last.ret.id}
            \/ last.ret.kind = "undefined" /\ Under(timelines[last.d], last.name) = {})
    /\ [][/\ last'.op = "createTimeline" =>
                /\ last'.ret.id = Len(handles) + 1
                /\ Under(timelines'[last'.d], last'.name) = {last'.ret.id}
                /\ \A n \in Names \ {last'.name} :
                      Under(timelines'[last'.d], n) = Under(timelines[last'.d], n)
          /\ last'.op # "createTimeline" => timelines' = timelines]_vars

\* getTimeline returns the second timeline created under a name; the first one is
\* no longer in the registry.
C4_Witness ==
    /\ last.op = "getTimeline"
    /\ last.ret.kind = "handle"
    /\ \E i \in DOMAIN handles :
          /\ i < last.ret.id
          /\ handles[i].target = "none"
          /\ \A n \in Names : i \notin Under(timelines[last.d], n)
    /\ Len(timelines[last.d]) = 1

\* C5: play/pause/reverse/restartTimeline with a name that has no entry do not
\* raise, add no entry, and change no timeline's play state and no active set.
C5_UnknownNameNoEffect ==
    [][(last'.op \in ControlOps /\ Under(timelines[last'.d], last'.name) = {}) =>
          /\ ~last'.raised
          /\ timelines' = timelines
          /\ handles' = handles
          /\ activeAnimations' = activeAnimations
          /\ observers' = observers]_vars

C5_Witness ==
    /\ last.op \in ControlOps
    /\ Under(timelines[last.d], last.name) = {}
    /\ timelines[last.d] # <<>>
    /\ activeAnimations[last.d] # {}

\* C6: without the engine the constructor raises with no field assigned and no
\* engine call made; with the engine it succeeds and leaves an empty active set
\* and an empty registry, with or without the scroll plugin.
C6_ConstructorFailsFast ==
    /\ ~gsapLoaded => \A d \in Disp : created[d] = {}
    /\ last.op = "constructor" =>
          IF gsapLoaded
          THEN /\ ~last.raised
               /\ created[last.d] = Fields
               /\ activeAnimations[last.d] = {}
               /\ timelines[last.d] = <<>>
          ELSE /\ last.raised
               /\ created[last.d] = {}
               /\ last.calls = <<>>

C6_Witness ==
    last.op = "constructor" /\ ~gsapLoaded /\ last.raised

\* C7: without the scroll plugin scrollTrigger does not raise, warns, returns
\* null, creates no observer, calls nothing, and leaves the active sets, the
\* registry and the handles as they were; the callback is never run.
C7_ScrollTriggerDegrades ==
    /\ [](~scrollLoaded => observers = <<>> /\ last.invoked = "none")
    /\ [][(last'.op = "scrollTrigger" /\ ~scrollLoaded) =>
            /\ ~last'.raised
            /\ last'.warned
            /\ last'.ret.kind = "null"
            /\ last'.calls = <<>>
            /\ observers' = observers
            /\ activeAnimations' = activeAnimations
            /\ timelines' = timelines
            /\ handles' = handles]_vars

C7_Witness ==
    /\ last.op = "scrollTrigger"
    /\ ~scrollLoaded
    /\ last.warned
    /\ activeAnimations[last.d] # {}

\* The keys of animate's defaults and their documented values (onStart and
\* onComplete default to null).
Documented(k) ==
    CASE k = "duration" -> 10
      [] k = "ease" -> "power2.out"
      [] k = "delay" -> 0
      [] OTHER -> "null"
DefaultKeys == {"duration", "ease", "delay", "onStart", "onComplete"}
CallbackKeys == {"onStart", "onComplete"}

\* properties first, then options, then the default
Precedence(k, p, o) ==
    IF k \in DOMAIN p THEN p[k] ELSE IF k \in DOMAIN o THEN o[k] ELSE Documented(k)

\* animate made one engine call, gsap.to on its target, with a config of the
\* keys of the defaults, the options and the properties.
OneSubmission ==
    /\ Len(last.calls) = 1
    /\ last.calls[1].fn = "to"
    /\ last.calls[1].target = last.target
    /\ DOMAIN last.calls[1].vars = DefaultKeys \cup DOMAIN last.options \cup DOMAIN last.properties

\* C8 as claimed: every key of the config, onStart and onComplete included, has
\* the properties' value, else the options' value, else the default.
C8_PropertiesWinEveryKey ==
    last.op = "animate" =>
        /\ OneSubmission
        /\ \A k \in DOMAIN last.calls[1].vars :
              last.calls[1].vars[k] = Precedence(k, last.properties, last.options)

\* C8, amended: as claimed for every key but onStart and onComplete; for these two
\* a truthy value in the options wins over the properties.
C8_PropertiesWinButCallbacks ==
    last.op = "animate" =>
        /\ OneSubmission
        /\ \A k \in DOMAIN last.calls[1].vars :
              last.calls[1].vars[k] =
                 IF /\ k \in CallbackKeys
                    /\ k \in DOMAIN last.options
                    /\ last.options[k] \notin {"null", "undefined", ""}
                 THEN last.options[k]
                 ELSE Precedence(k, last.properties, last.options)

\* animate with onStart in the properties and another, truthy onStart in the options
C8_Witness ==
    /\ last.op = "animate"
    /\ "onStart" \in DOMAIN last.properties
    /\ "onStart" \in DOMAIN last.options
    /\ last.properties["onStart"] # last.options["onStart"]
    /\ last.calls[1].vars["onStart"] = last.options["onStart"]

\* The config of the gsap.to the last call made (its last engine call).
Submitted == last.calls[Len(last.calls)].vars

\* C9: with empty options fadeIn, fadeOut and the slides run with duration 1,
\* delay 0 and ease 'power2.out'; the slides start 100 away; shake swings by 10;
\* pulse repeats 2 times; the stagger presets stagger by 0.2.
C9_EmptyOptionsDefaults ==
    last.options = EmptyObj =>
        /\ last.op \in {"fadeIn", "fadeOut", "slideUp", "slideDown", "slideLeft", "slideRight"} =>
              /\ Submitted["duration"] = 10
              /\ Submitted["delay"] = 0
              /\ Submitted["ease"] = "power2.out"
        /\ last.op = "slideUp" => last.calls[1].vars["y"] = 1000
        /\ last.op = "slideDown" => last.calls[1].vars["y"] = -1000
        /\ last.op = "slideLeft" => last.calls[1].vars["x"] = 1000
        /\ last.op = "slideRight" => last.calls[1].vars["x"] = -1000
        /\ last.op = "shake" =>
              [i \in 2..6 |-> last.calls[i].vars["x"]] =
                 [i \in 2..6 |-> CASE i \in {2, 4} -> -100 [] i \in {3, 5} -> 100 [] OTHER -> 0]
        /\ last.op = "pulse" => last.calls[1].vars = [repeat |-> 20]
        /\ last.op \in {"staggerFadeIn", "staggerSlideUp", "staggerScale"} =>
              Submitted["stagger"] = 2

C9_Witness ==
    /\ last.op = "slideDown"
    /\ last.options = EmptyObj
    /\ last.calls[1].vars["y"] = -1000
    /\ Len(handles) > 1

\* The presets that start from a state of their own.
InitPresets == {"fadeIn", "slideUp", "slideDown", "slideLeft", "slideRight", "scaleUp",
                "rotateIn", "bounceIn", "elastic"}

\* The distance a slide starts from: the option, 100 when it is absent (or zero).
Offset(o) == IF "distance" \in DOMAIN o /\ o["distance"] # 0 THEN o["distance"] ELSE 1000

\* The documented initial values of a preset, and the values it animates to.
InitialOf(op, o) ==
    CASE op = "fadeIn" -> [opacity |-> 0]
      [] op = "slideUp" -> [y |-> Offset(o), opacity |-> 0]
      [] op = "slideDown" -> [y |-> 0 - Offset(o), opacity |-> 0]
      [] op = "slideLeft" -> [x |-> Offset(o), opacity |-> 0]
      [] op = "slideRight" -> [x |-> 0 - Offset(o), opacity |-> 0]
      [] op = "rotateIn" -> [rotation |-> -1800, scale |-> 0, opacity |-> 0]
      [] op = "bounceIn" -> [y |-> -1000, opacity |-> 0]
      [] op \in {"scaleUp", "elastic"} -> [scale |-> 0, opacity |-> 0]
EndOf(op) ==
    CASE op = "fadeIn" -> [opacity |-> 10]
      [] op \in {"slideUp", "slideDown", "bounceIn"} -> [y |-> 0, opacity |-> 10]
      [] op \in {"slideLeft", "slideRight"} -> [x |-> 0, opacity |-> 10]
      [] op = "rotateIn" -> [rotation |-> 0, scale |-> 10, opacity |-> 10]
      [] op \in {"scaleUp", "elastic"} -> [scale |-> 10, opacity |-> 10]

Swing(o) == IF "intensity" \in DOMAIN o /\ o["intensity"] # 0 THEN o["intensity"] ELSE 100

\* C11: shake creates one timeline and appends exactly five steps to it, all on
\* its target, each moving x only and lasting 0.1: -intensity, +intensity,
\* -intensity, +intensity, 0, whatever duration or other option is given.
C11_ShakeFiveSteps ==
    last.op = "shake" =>
        /\ Len(last.calls) = 6
        /\ last.calls[1] = [fn |-> "timeline", target |-> "none", vars |-> EmptyObj]
        /\ \A i \in 2..6 :
              /\ last.calls[i].fn = "tl.to"
              /\ last.calls[i].target = last.target
              /\ last.calls[i].vars =
                    [x |-> CASE i \in {2, 4} -> 0 - Swing(last.options)
                             [] i \in {3, 5} -> Swing(last.options)
                             [] OTHER -> 0,
                     duration |-> 1]

\* shake with intensity 5 and a duration of 2
C11_Witness ==
    /\ last.op = "shake"
    /\ "duration" \in DOMAIN last.options /\ last.options["duration"] = 20
    /\ "intensity" \in DOMAIN last.options /\ last.options["intensity"] = 50
    /\ last.calls[2].vars = [x |-> -50, duration |-> 1]
    /\ last.calls[6].vars = [x |-> 0, duration |-> 1]

\* The function the options supply under onComplete ("none": they supply none).
Supplied(o) ==
    IF "onComplete" \in DOMAIN o /\ o["onComplete"] \notin {"null", "undefined", ""}
    THEN o["onComplete"] ELSE "none"

\* C12: fadeIn sets its target's opacity to 0 and then submits one animation of the
\* opacity to 1 that carries the supplied onComplete, and nothing has been called
\* when it returns.  The callback of a handle is called only when its animation
\* completes, once; a handle killed before it completed never completes and its
\* callback is never called; the library itself calls no callback.
C12_FadeInThenComplete ==
    /\ [](last.op = "fadeIn" =>
            /\ Len(last.calls) = 2
            /\ last.calls[1] = [fn |-> "set", target |-> last.target, vars |-> [opacity |-> 0]]
            /\ last.calls[2].fn = "to" /\ last.calls[2].target = last.target
            /\ last.calls[2].vars["opacity"] = 10
            /\ handles[last.ret.id].onComplete = Supplied(last.options)
            /\ handles[last.ret.id].fired = 0 /\ ~handles[last.ret.id].done
            /\ last.invoked = "none")
    /\ [](\A i \in DOMAIN handles :
            /\ handles[i].fired <= 1
            /\ handles[i].fired = 1 <=> (handles[i].done /\ handles[i].onComplete # "none"))
    /\ [](last.op # "complete" => last.invoked = "none")
    /\ [][\A i \in DOMAIN handles :
            /\ (handles[i].killed /\ ~handles[i].done) =>
                  (~handles'[i].done /\ handles'[i].fired = 0 /\ handles'[i].killed)
            /\ handles'[i].fired # handles[i].fired =>
                  /\ last'.op = "complete" /\ last'.arg = i
                  /\ last'.invoked = handles[i].onComplete
                  /\ handles'[i].done /\ ~handles[i].done]_vars

\* The animation of a fadeIn given an onComplete and an opacity of its own has
\* completed and the callback has been called, while another handle, killed before
\* it completed, has not called its callback.
C12_Witness ==
    /\ last.op = "complete"
    /\ last.invoked = "cbA"
    /\ "opacity" \in DOMAIN caller.options
    /\ handles[last.arg].fired = 1
    /\ \E i \in DOMAIN handles :
          handles[i].killed /\ ~handles[i].done /\ handles[i].onComplete = "cbA"

\* C13: with the plugin loaded, scrollTrigger(target, callback, options) returns
\* an observer whose trigger is target and whose onEnter runs callback, whatever
\* the options carry; when the page crosses an observer's threshold, the callback
\* that runs is the one its onEnter holds.
C13_ObserverRunsCallback ==
    /\ (last.op = "scrollTrigger" /\ scrollLoaded) =>
          /\ last.ret.kind = "observer"
          /\ observers[last.ret.id].trigger = last.target
          /\ Runs(observers[last.ret.id].onEnter) = last.arg
    /\ last.op = "onEnter" => last.invoked = Runs(observers[last.arg].onEnter)

\* The singular counterpart of a stagger preset.
Singular(op) ==
    CASE op = "staggerFadeIn" -> "fadeIn"
      [] op = "staggerSlideUp" -> "slideUp"
      [] op = "staggerScale" -> "scaleUp"

\* C14: a stagger preset makes two engine calls on the whole collection: the set
\* of the initial values its singular counterpart sets with the same options, then
\* one animation to the counterpart's end values, with a stagger.
C14_StaggerLikeSingular ==
    last.op \in {"staggerFadeIn", "staggerSlideUp", "staggerScale"} =>
        /\ Len(last.calls) = 2
        /\ last.calls[1] = [fn |-> "set", target |-> last.target,
                            vars |-> InitialOf(Singular(last.op), last.options)]
        /\ last.calls[2].fn = "to"
        /\ last.calls[2].target = last.target
        /\ "stagger" \in DOMAIN last.calls[2].vars
        /\ \A k \in DOMAIN EndOf(Singular(last.op)) :
              last.calls[2].vars[k] = EndOf(Singular(last.op))[k]

\* The option keys a preset reads for itself.
Interpreted(op) ==
    CASE op \in {"slideUp", "slideDown", "slideLeft", "slideRight"} -> {"distance"}
      [] op = "shake" -> {"intensity"}
      [] op = "pulse" -> {"repeat"}
      [] op \in {"staggerFadeIn", "staggerScale"} -> {"duration", "stagger", "ease", "delay"}
      [] op = "staggerSlideUp" -> {"distance", "duration", "stagger", "ease", "delay"}
      [] OTHER -> {}

\* C15: every key of the options that animate or a preset does not read for itself
\* is in the vars of an animation the call submits (not of a gsap.set), with the
\* caller's value.
C15_OptionsReachEngine ==
    last.op \in HandleOps =>
        \A k \in DOMAIN last.options \ Interpreted(last.op) :
            \E i \in DOMAIN last.calls :
                /\ last.calls[i].fn # "set"
                /\ k \in DOMAIN last.calls[i].vars
                /\ last.calls[i].vars[k] = last.options[k]

\* C16: after killAll on one instance every animation on the page is stopped: the
\* handles that instance produced and those of every other instance.
C16_KillAllStopsEverything ==
    last.op = "killAll" => \A i \in DOMAIN handles : handles[i].killed

\* C17: every handle in the active set of an instance was produced by that
\* instance and has not been killed.
C17_ActiveSetOwnAndAlive ==
    \A d \in Disp : \A i \in activeAnimations[d] :
        /\ i \in DOMAIN handles
        /\ handles[i].by = d
        /\ ~handles[i].killed

\* The timelines createTimeline made that the registry of their instance no longer
\* holds under any name.
Displaced ==
    {i \in DOMAIN handles :
        /\ handles[i].target = "none"
        /\ \A j \in DOMAIN timelines[handles[i].by] : timelines[handles[i].by][j][2] # i}

\* C18: createTimeline changes no existing handle, the one it displaces included;
\* a displaced timeline stays displaced, getTimeline never returns it, and the
\* four control operations leave it as it is.
C18_DisplacedUntouched ==
    /\ [](last.op = "getTimeline" => last.ret.id \notin Displaced)
    /\ [][/\ last'.op = "createTimeline" =>
                \A i \in DOMAIN handles : handles'[i] = handles[i]
          /\ \A i \in Displaced : i \in Displaced'
          /\ last'.op \in ControlOps \cup {"getTimeline", "createTimeline"} =>
                \A i \in Displaced : handles'[i] = handles[i]]_vars

\* A name was given a second timeline and then paused: the timeline now under the
\* name is paused, the one it displaced is still running.
C18_Witness ==
    /\ last.op = "pauseTimeline"
    /\ \E i \in Under(timelines[last.d], last.name) : handles[i].paused
    /\ \E i \in Displaced : ~handles[i].paused /\ ~handles[i].killed

\* C19: a step that is not a createTimeline leaves every instance's registry as
\* it was; after killAll every name resolves to the handle it resolved to before;
\* a createTimeline changes the registry of its own instance only.
C19_RegistryOnlyByCreate ==
    [][/\ last'.op # "createTimeline" => \A d \in Disp : timelines'[d] = timelines[d]
       /\ last'.op = "killAll" =>
            \A n \in Names : MapGet(timelines'[last'.d], n) = MapGet(timelines[last'.d], n)
       /\ last'.op = "createTimeline" =>
            \A d \in Disp \ {last'.d} : timelines'[d] = timelines[d]]_vars

\* killAll has killed tracked handles and the registry still holds a timeline.
C19_Witness ==
    /\ last.op = "killAll"
    /\ last.dropped # {}
    /\ \E n \in Names : MapGet(timelines[last.d], n) # 0

\* C20: a step other than killAnimation and killAll removes no handle from any
\* active set; the completion of an animation leaves every active set as it
\* was; a call of animate or of a preset routed through it adds exactly the
\* handle it returns.
C20_LeavesOnlyByKill ==
    [][/\ last'.op \notin {"killAnimation", "killAll"} =>
            \A d \in Disp : activeAnimations[d] \subseteq activeAnimations'[d]
       /\ last'.op = "complete" => activeAnimations' = activeAnimations
       /\ last'.op \in ViaAnimate =>
            /\ last'.ret.id \notin activeAnimations[last'.d]
            /\ activeAnimations'[last'.d] = activeAnimations[last'.d] \cup {last'.ret.id}]_vars

\* Two animations were started and both have completed; both handles are still
\* in the active set.
C20_Witness ==
    /\ last.op = "complete"
    /\ Cardinality(activeAnimations[last.d]) = 2
    /\ \A i \in activeAnimations[last.d] : handles[i].done /\ ~handles[i].killed

\* The option k was supplied as 0.
Zero(o, k) == k \in DOMAIN o /\ o[k] = 0

\* C21: an option given as 0 gives what the absent option gives where a preset
\* reads it itself: the slides start 100 away and staggerSlideUp 50, shake swings
\* by 10, pulse repeats 2 times, the stagger presets run with duration 1, stagger
\* 0.2 and delay 0.  animate and the presets routed through it submit a duration
\* or delay of 0 as given (unless animate's properties carry the key).
C21_ZeroIsNotSupplied ==
    LET o == last.options IN
    /\ (last.op \in {"slideUp", "slideLeft"} /\ Zero(o, "distance")) =>
          \E k \in {"x", "y"} : last.calls[1].vars = (k :> 1000 @@ "opacity" :> 0)
    /\ (last.op \in {"slideDown", "slideRight"} /\ Zero(o, "distance")) =>
          \E k \in {"x", "y"} : last.calls[1].vars = (k :> -1000 @@ "opacity" :> 0)
    /\ (last.op = "staggerSlideUp" /\ Zero(o, "distance")) =>
          last.calls[1].vars = [y |-> 500, opacity |-> 0]
    /\ (last.op = "shake" /\ Zero(o, "intensity")) =>
          /\ last.calls[2].vars["x"] = -100 /\ last.calls[3].vars["x"] = 100
          /\ last.calls[4].vars["x"] = -100 /\ last.calls[5].vars["x"] = 100
    /\ (last.op = "pulse" /\ Zero(o, "repeat")) => last.calls[1].vars = [repeat |-> 20]
    /\ last.op \in {"staggerFadeIn", "staggerSlideUp", "staggerScale"} =>
          /\ Zero(o, "duration") => Submitted["duration"] = 10
          /\ Zero(o, "stagger") => Submitted["stagger"] = 2
          /\ Zero(o, "delay") => Submitted["delay"] = 0
    /\ last.op \in ViaAnimate =>
          \A k \in {"duration", "delay"} :
              (Zero(o, k) /\ k \notin DOMAIN last.properties) => Submitted[k] = 0

\* staggerSlideUp, the second animation of a run, given a distance of 0 and a
\* duration of 0: it starts 50 away and runs for 1.
C21_Witness ==
    /\ last.op = "staggerSlideUp"
    /\ Zero(last.options, "distance") /\ Zero(last.options, "duration")
    /\ last.calls[1].vars["y"] = 500
    /\ Submitted["duration"] = 10
    /\ Len(handles) = 2

\* C22: killAnimation never raises; given null it changes no handle and no active
\* set; given a handle that is not in the instance's active set it stops that
\* handle, changes no other handle, and leaves every active set as it was.
C22_KillAnimationUntracked ==
    [][last'.op = "killAnimation" =>
          /\ ~last'.raised
          /\ last'.arg = 0 =>
                /\ handles' = handles
                /\ activeAnimations' = activeAnimations
                /\ last'.calls = <<>>
          /\ (last'.arg # 0 /\ last'.arg \notin activeAnimations[last'.d]) =>
                /\ handles'[last'.arg].killed
                /\ \A i \in DOMAIN handles \ {last'.arg} : handles'[i] = handles[i]
                /\ activeAnimations' = activeAnimations]_vars

\* An instance with a handle of its own was given a handle another instance
\* tracks: the handle is stopped, and both active sets are as they were.
C22_Witness ==
    /\ last.op = "killAnimation"
    /\ last.arg # 0
    /\ handles[last.arg].by # last.d
    /\ handles[last.arg].killed
    /\ last.dropped = {}
    /\ activeAnimations[last.d] # {}
    /\ last.arg \in activeAnimations[handles[last.arg].by]
====
